---- MODULE Spec2Model ----
(***************************************************************************)
(* Model of src/app.py: the scenario generator generate_scenario_data and  *)
(* the Streamlit dashboard script that calls it on every sidebar change.   *)
(*                                                                         *)
(* Numbers.  The program computes in IEEE-754 binary64 (numpy float64).    *)
(* The model computes in a binary floating-point format of the same shape  *)
(* with a narrower significand and exponent range: a float is <<m, e>>,    *)
(* value m * 2^e, |m| < 2^Precision, e >= -MinExp, round-to-nearest-even   *)
(* after every operation, gradual underflow (subnormals at e = -MinExp).   *)
(* Infinities and NaN are not modelled: the inputs enumerated are finite   *)
(* and far from overflow.                                                  *)
(***************************************************************************)
EXTENDS Integers, Sequences, FiniteSets, TLC

\* significand width of the model's floats (binary64: 53)
Precision == 11
\* the smallest exponent is -MinExp (binary64: -1074)
MinExp == 80

----------------------------------------------------------------------------
(* Floating-point arithmetic *)

Abs(x) == IF x < 0 THEN -x ELSE x
Sgn(x) == IF x < 0 THEN -1 ELSE 1

\* the number of binary digits of x, 0 <= x < 2^31
BitLen(x) ==
  IF x < 65536
  THEN IF x < 256
       THEN IF x < 16
            THEN IF x < 1 THEN 0 ELSE IF x < 2 THEN 1 ELSE IF x < 4 THEN 2 ELSE IF x < 8 THEN 3 ELSE 4
            ELSE IF x < 32 THEN 5 ELSE IF x < 64 THEN 6 ELSE IF x < 128 THEN 7 ELSE 8
       ELSE IF x < 4096
            THEN IF x < 512 THEN 9 ELSE IF x < 1024 THEN 10 ELSE IF x < 2048 THEN 11 ELSE 12
            ELSE IF x < 8192 THEN 13 ELSE IF x < 16384 THEN 14 ELSE IF x < 32768 THEN 15 ELSE 16
  ELSE IF x < 16777216
       THEN IF x < 1048576
            THEN IF x < 131072 THEN 17 ELSE IF x < 262144 THEN 18 ELSE IF x < 524288 THEN 19 ELSE 20
            ELSE IF x < 2097152 THEN 21 ELSE IF x < 4194304 THEN 22 ELSE IF x < 8388608 THEN 23 ELSE 24
       ELSE IF x < 268435456
            THEN IF x < 33554432 THEN 25 ELSE IF x < 67108864 THEN 26 ELSE IF x < 134217728 THEN 27 ELSE 28
            ELSE IF x < 536870912 THEN 29 ELSE IF x < 1073741824 THEN 30 ELSE 31

Zero == <<0, -MinExp>>

\* q units of 2^e plus a remainder r out of 2 * half, to the nearest unit,
\* ties to even, carrying into the exponent when the significand overflows
RoundNearest(sign, q, r, half, e) ==
  IF r > half \/ (r = half /\ q % 2 = 1)
  THEN (IF q + 1 = 2^Precision THEN <<sign * 2^(Precision - 1), e + 1>>
        ELSE <<sign * (q + 1), e>>)
  ELSE (IF q = 0 THEN Zero ELSE <<sign * q, e>>)

\* M * 2^E, M # 0 with L binary digits, rounded at exponent e
RoundAt(M, E, L, e) ==
  IF e <= E THEN <<M * 2^(E - e), e>>
  ELSE IF e - E > L THEN Zero
  ELSE RoundNearest(Sgn(M), Abs(M) \div 2^(e - E), Abs(M) % 2^(e - E),
                    2^(e - E - 1), e)

\* the exponent of the float nearest to a number of L digits at exponent E
ExponentFor(E, L) ==
  IF E + L - Precision > -MinExp THEN E + L - Precision ELSE -MinExp

\* the float nearest to M * 2^E, ties to even
RoundFloat(M, E) ==
  IF M = 0 THEN Zero
  ELSE RoundAt(M, E, BitLen(Abs(M)), ExponentFor(E, BitLen(Abs(M))))

fneg(x) == <<-x[1], x[2]>>

\* x + y for x # 0, y # 0 and x's exponent not below y's
AddAligned(hi, lo) ==
  IF hi[2] - lo[2] >= Precision + 2 THEN hi
  ELSE RoundFloat(hi[1] * 2^(hi[2] - lo[2]) + lo[1], lo[2])

fadd(x, y) ==
  IF x[1] = 0 THEN y
  ELSE IF y[1] = 0 THEN x
  ELSE IF x[2] >= y[2] THEN AddAligned(x, y) ELSE AddAligned(y, x)

fsub(x, y) == fadd(x, fneg(y))

fmul(x, y) == RoundFloat(x[1] * y[1], x[2] + y[2])

\* N / d, signed by sign, at exponent E: the quotient with a sticky bit
DivScaled(sign, N, d, E) ==
  RoundFloat(sign * (2 * (N \div d) + (IF N % d = 0 THEN 0 ELSE 1)), E - 1)

\* x / y, x # 0, the dividend scaled by 2^k to 2 * Precision + 3 digits
DivBy(x, y, k) ==
  DivScaled(Sgn(x[1]) * Sgn(y[1]), Abs(x[1]) * 2^k, Abs(y[1]), x[2] - y[2] - k)

fdiv(x, y) ==
  IF x[1] = 0 THEN Zero
  ELSE DivBy(x, y, 2 * Precision + 3 - BitLen(Abs(x[1])))

flt(x, y) == fsub(x, y)[1] < 0
fle(x, y) == fsub(x, y)[1] <= 0

\* an integer as a float (exact while |i| < 2^Precision)
FromInt(i) == RoundFloat(i, 0)

\* an array held by value: every element computed once, when the array is built
ndarray(f) == f \o <<>>

\* a decimal with two places, h/100, as the nearest float (a Python literal)
Dec(h) == fdiv(FromInt(h), FromInt(100))

Half == RoundFloat(1, -1)
Two  == FromInt(2)

----------------------------------------------------------------------------
(* Library routines the generator calls *)

\* calendar dates are the integers yyyymmdd
MkDate(y, m, d) == y * 10000 + m * 100 + d
IsLeap(y) == (y % 4 = 0 /\ y % 100 # 0) \/ y % 400 = 0
DaysInMonth(y, m) ==
  IF m = 2 THEN (IF IsLeap(y) THEN 29 ELSE 28)
  ELSE IF m \in {4, 6, 9, 11} THEN 30 ELSE 31
MonthEnd(y, m) == MkDate(y, m, DaysInMonth(y, m))

\* date_range with the end date excluded
date_range_open(start, end) ==
  LET y0     == start \div 10000
      m0     == (start \div 100) % 100
      y1     == end \div 10000
      m1     == (end \div 100) % 100
      months == (y1 - y0) * 12 + (m1 - m0) + (IF MonthEnd(y1, m1) < end THEN 1 ELSE 0)
      at(k)  == MonthEnd(y0 + (m0 - 1 + k) \div 12, ((m0 - 1 + k) % 12) + 1)
  IN ndarray([j \in 1..months |-> at(j - 1)])

\* pd.date_range(start, end, freq="M"): the month-ends d with start <= d <= end,
\* one per calendar month from start's month on
date_range(start, end) ==
  LET y0     == start \div 10000
      m0     == (start \div 100) % 100
      y1     == end \div 10000
      m1     == (end \div 100) % 100
      months == (y1 - y0) * 12 + (m1 - m0) + (IF MonthEnd(y1, m1) <= end THEN 1 ELSE 0)
      at(k)  == MonthEnd(y0 + (m0 - 1 + k) \div 12, ((m0 - 1 + k) % 12) + 1)
  IN ndarray([j \in 1..months |-> at(j - 1)])

\* linspace without the final assignment of stop to the last sample
linspace_computed_end(start, stop, num) ==
  LET div   == FromInt(num - 1)
      delta == fsub(stop, start)
      step  == fdiv(delta, div)
      y(i)  == IF step[1] = 0
               THEN fadd(fmul(fdiv(FromInt(i), div), delta), start)
               ELSE fadd(fmul(FromInt(i), step), start)
  IN ndarray([j \in 1..num |-> y(j - 1)])

\* np.linspace(start, stop, num): num >= 2 samples, endpoint included
linspace(start, stop, num) ==
  LET div   == FromInt(num - 1)
      delta == fsub(stop, start)
      step  == fdiv(delta, div)
      y(i)  == IF step[1] = 0
               THEN fadd(fmul(fdiv(FromInt(i), div), delta), start)
               ELSE fadd(fmul(FromInt(i), step), start)
  IN ndarray([j \in 1..num |-> IF j = num THEN stop ELSE y(j - 1)])

\* np.sin(np.linspace(0, 8*np.pi, 84)) as binary64 computes it, to 24 bits
\* (the last entry is the sine of the float nearest 8*pi, not 0)
sin_grid ==
  << <<0, 0>>, <<5002931, -24>>, <<9550635, -24>>, <<6614655, -23>>,
     <<15704225, -24>>, <<16750183, -24>>, <<8136005, -23>>, <<14313217, -24>>,
     <<11052037, -24>>, <<1696303, -22>>, <<15207899, -27>>, <<-6312423, -25>>,
     <<-15852441, -25>>, <<-374219, -19>>, <<-14934167, -24>>, <<-16534439, -24>>,
     <<-8315105, -23>>, <<-475399, -19>>, <<-12411087, -24>>, <<-8480099, -24>>,
     <<-15109959, -26>>, <<5075359, -26>>, <<12399431, -25>>, <<10566467, -24>>,
     <<3492939, -22>>, <<16105729, -24>>, <<4193553, -22>>, <<15916377, -24>>,
     <<13610281, -24>>, <<10065761, -24>>, <<2802669, -23>>, <<5078997, -27>>,
     <<-4393357, -24>>, <<-9021829, -24>>, <<-3207347, -22>>, <<-1933697, -21>>,
     <<-16702159, -24>>, <<-16414981, -24>>, <<-7317087, -23>>, <<-11521775, -24>>,
     <<-14721977, -25>>, <<-10121647, -26>>, <<10121647, -26>>, <<14721977, -25>>,
     <<11521775, -24>>, <<7317087, -23>>, <<16414981, -24>>, <<16702159, -24>>,
     <<1933697, -21>>, <<3207347, -22>>, <<9021829, -24>>, <<4393357, -24>>,
     <<-5078997, -27>>, <<-2802669, -23>>, <<-10065761, -24>>, <<-13610281, -24>>,
     <<-15916377, -24>>, <<-4193553, -22>>, <<-16105729, -24>>, <<-3492939, -22>>,
     <<-10566467, -24>>, <<-12399431, -25>>, <<-5075359, -26>>, <<15109959, -26>>,
     <<8480099, -24>>, <<12411087, -24>>, <<475399, -19>>, <<8315105, -23>>,
     <<16534439, -24>>, <<14934167, -24>>, <<374219, -19>>, <<15852441, -25>>,
     <<6312423, -25>>, <<-15207899, -27>>, <<-1696303, -22>>, <<-11052037, -24>>,
     <<-14313217, -24>>, <<-8136005, -23>>, <<-16750183, -24>>, <<-15704225, -24>>,
     <<-6614655, -23>>, <<-9550635, -24>>, <<-5002931, -24>>, <<-4626585, -72>> >>

\* np.exp(-0.1 * k) for k = 0..36 as binary64 computes it, to 24 bits
exp_decay ==
  << <<1, 0>>, <<15180653, -24>>, <<13736023, -24>>, <<12428867, -24>>,
     <<1405763, -21>>, <<1271987, -21>>, <<9207531, -24>>, <<8331319, -24>>,
     <<7538489, -24>>, <<6821107, -24>>, <<6171993, -24>>, <<2792325, -23>>,
     <<10106401, -25>>, <<4572325, -24>>, <<8274421, -25>>, <<3743503, -24>>,
     <<6774523, -25>>, <<3064921, -24>>, <<11093021, -26>>, <<2509345, -24>>,
     <<9082197, -26>>, <<1027239, -23>>, <<3717937, -25>>, <<6728257, -26>>,
     <<6087979, -26>>, <<5508631, -26>>, <<9968831, -27>>, <<9020171, -27>>,
     <<16323577, -28>>, <<14770183, -28>>, <<6682307, -27>>, <<12092803, -28>>,
     <<10942021, -28>>, <<4950375, -27>>, <<8958569, -28>>, <<16212097, -29>>,
     <<28651, -20>> >>

sin_linspace(num) ==
  ndarray([j \in 1..num |-> RoundFloat(sin_grid[j][1], sin_grid[j][2])])
\* the decay with the sign of the exponent lost: exp(+0.1 * k)
exp_arange_growing(num) ==
  ndarray([j \in 1..num |->
             fdiv(FromInt(1), RoundFloat(exp_decay[j][1], exp_decay[j][2]))])

exp_arange(num) ==
  ndarray([j \in 1..num |-> RoundFloat(exp_decay[j][1], exp_decay[j][2])])

\* The process-wide random source (np.random): a state and a step function.
\* Its period and its outputs are scaled down; each draw advances the state
\* by one, so k draws take state s to rng_skip(s, k).
RngPeriod == 8
RngStates == 0..(RngPeriod - 1)
rng_skip(s, k) == (s + k) % RngPeriod
\* the standard normal deviate drawn in state s
gauss(s) ==
  LET z == << <<-2, 0>>, <<-5, -2>>, <<-3, -2>>, <<-1, -2>>,
              <<1, -3>>, <<1, -1>>, <<9, -3>>, <<7, -2>> >>
  IN RoundFloat(z[(s % 8) + 1][1], z[(s % 8) + 1][2])

\* normal with the scale added to the deviate instead of multiplying it
random_normal_shifted(loc, scale, size, s) ==
  IF flt(scale, Zero)
  THEN [exc |-> "ValueError", out |-> <<>>, rng |-> s]
  ELSE [exc |-> "none",
        out |-> ndarray([j \in 1..size |->
                           fadd(loc, fadd(scale, gauss(rng_skip(s, j - 1))))]),
        rng |-> rng_skip(s, size)]

\* normal with the scale ignored: loc + z
random_normal_unscaled(loc, scale, size, s) ==
  IF flt(scale, Zero)
  THEN [exc |-> "ValueError", out |-> <<>>, rng |-> s]
  ELSE [exc |-> "none",
        out |-> ndarray([j \in 1..size |-> fadd(loc, gauss(rng_skip(s, j - 1)))]),
        rng |-> rng_skip(s, size)]

\* normal without the check of the scale
random_normal_unchecked(loc, scale, size, s) ==
  [exc |-> "none",
   out |-> ndarray([j \in 1..size |->
                      fadd(loc, fmul(scale, gauss(rng_skip(s, j - 1))))]),
   rng |-> rng_skip(s, size)]

\* np.random.normal(loc, scale, size) from state s: raises on scale < 0,
\* else size draws loc + scale * z, advancing the source
random_normal(loc, scale, size, s) ==
  IF flt(scale, Zero)
  THEN [exc |-> "ValueError", out |-> <<>>, rng |-> s]
  ELSE [exc |-> "none",
        out |-> ndarray([j \in 1..size |->
                           fadd(loc, fmul(scale, gauss(rng_skip(s, j - 1))))]),
        rng |-> rng_skip(s, size)]

----------------------------------------------------------------------------
(* generate_scenario_data, src/app.py lines 41-58 *)

\* the onset one month early
shock_start_early == 48 - 1

\* line 54
shock_start == 48

\* lines 53-55: zeros, then shock_factor * exp(-0.1 * k) from shock_start on
shock_event(shock_factor, n) ==
  LET decay == exp_arange(n - shock_start)
  IN ndarray([j \in 1..n |->
                IF j - 1 < shock_start THEN Zero
                ELSE fmul(shock_factor, decay[j - shock_start])])

\* line 49: np.sin(np.linspace(0, 8*np.pi, n)) * 0.5
seasonal(n) ==
  LET sines == sin_linspace(n)
  IN ndarray([j \in 1..n |-> fmul(sines[j], Half)])

\* line 57: trend + seasonality + noise + shock, elementwise, left to right
sum_components(trend, seasonality, noise, shock) ==
  ndarray([j \in 1..Len(trend) |->
             fadd(fadd(fadd(trend[j], seasonality[j]), noise[j]), shock[j])])

\* The call generate_scenario_data(base_inflation, shock_factor, volatility)
\* with the random source in state s: the arguments, the locals when it
\* returns or raises, the DataFrame returned, and the state the random source
\* is left in.
generate_scenario_data(base_inflation, shock_factor, volatility, s) ==
  LET dates       == date_range(20200101, 20261231)
      n           == Len(dates)
      trend       == linspace(Two, base_inflation, n)
      seasonality == seasonal(n)
      drawn       == random_normal(Zero, volatility, n, s)
      raised      == drawn.exc # "none"
      noise       == drawn.out
      shock       == IF raised THEN <<>> ELSE shock_event(shock_factor, n)
      values      == IF raised THEN <<>>
                     ELSE sum_components(trend, seasonality, noise, shock)
  IN [exc |-> drawn.exc, args |-> <<base_inflation, shock_factor, volatility>>,
      rng0 |-> s, n |-> n, trend |-> trend, seasonality |-> seasonality,
      noise |-> noise, shock |-> shock,
      df |-> [Date |-> IF raised THEN <<>> ELSE dates, Inflation |-> values],
      rng |-> drawn.rng]

\* no call made yet
NoCall == [exc |-> "nocall"]

----------------------------------------------------------------------------
(* The dashboard script, src/app.py lines 60-95 *)

\* line 69
vol_map == [Stable |-> Dec(10), Uncertain |-> Dec(40), Chaotic |-> Dec(90)]

\* the options with a label vol_map does not know
VolatilityOptionsRenamed == {"Stable", "Uncertain", "Turbulent"}

\* line 66: the options of the select_slider
VolatilityOptions == {"Stable", "Uncertain", "Chaotic"}

\* lines 64-65: slider(min, max, value), float sliders step by 0.01; the
\* stops (in hundredths) the model moves the sliders to, the defaults included
TargetMin == 100
TargetMax == 1000
TargetDefault == 350
ShockMin == 0
ShockMax == 500
ShockDefault == 150
TargetStops == {TargetMin, TargetDefault, TargetMax}
ShockStops  == {ShockMin, ShockDefault, ShockMax}

\* iloc with positions counted from 1
iloc_from_one(series, i) == IF i < 0 THEN series[Len(series) + i + 1] ELSE series[i]

\* Series.iloc[i], i counted from 0, negative i from the end
iloc(series, i) == IF i < 0 THEN series[Len(series) + i + 1] ELSE series[i + 1]

\* Series.max()
series_max(series) ==
  LET vals == {series[j] : j \in 1..Len(series)}
  IN CHOOSE x \in vals : \A y \in vals : fle(y, x)

\* f"{x:.2f}": x to two decimals, as an integer number of hundredths
\* (nearest, ties to even)
format_2f(x) ==
  IF x[2] >= 0 THEN x[1] * 2^x[2] * 100
  ELSE IF -x[2] > 30 THEN 0
  ELSE LET N  == Abs(x[1]) * 100
           D  == 2^(-x[2])
           q  == N \div D
           r  == N % D
           q1 == IF 2 * r > D \/ (2 * r = D /\ q % 2 = 1) THEN q + 1 ELSE q
       IN Sgn(x[1]) * q1

\* df[mask]: the rows of df at which the boolean Series mask is true, in
\* df's order
rows_where(df, mask) ==
  LET all  == ndarray([j \in 1..Len(df.Date) |-> j])
      keep == SelectSeq(all, LAMBDA j : mask[j])
  IN [Date      |-> ndarray([k \in 1..Len(keep) |-> df.Date[keep[k]]]),
      Inflation |-> ndarray([k \in 1..Len(keep) |-> df.Inflation[keep[k]]])]

\* line 94 with the cut-off a month late
history_rows_late(df) ==
  rows_where(df, [j \in 1..Len(df.Date) |-> df.Date[j] < 20240201])

\* line 94: df[df['Date'] < '2024-01-01']
history_rows(df) ==
  rows_where(df, [j \in 1..Len(df.Date) |-> df.Date[j] < 20240101])

\* line 95: df[df['Date'] >= '2024-01-01']
forecast_rows(df) ==
  rows_where(df, [j \in 1..Len(df.Date) |-> df.Date[j] >= 20240101])

\* lines 81-87: the three metric cards, as displayed
metric_cards(curr, peak, pre, label) ==
  [value  |-> format_2f(curr),
   delta  |-> format_2f(fsub(curr, pre)),
   peak   |-> format_2f(peak),
   regime |-> label]

----------------------------------------------------------------------------
(* State *)

VARIABLES
  rng,             \* the state of the process-wide random source
  frame,           \* the latest call of generate_scenario_data
  prev,            \* the call of the test driver before that one
  args,            \* the arguments the test driver calls with
  base_target,     \* slider value, hundredths
  shock_magnitude, \* slider value, hundredths
  volatility_idx,  \* select_slider label
  status,          \* how the latest script run ended
  df, curr_val, peak_val, pre_shock_val, metrics, history, forecast

vars == <<rng, frame, prev, args, base_target, shock_magnitude, volatility_idx,
          status, df, curr_val, peak_val, pre_shock_val, metrics, history, forecast>>

page == <<base_target, shock_magnitude, volatility_idx, status, df, curr_val,
          peak_val, pre_shock_val, metrics, history, forecast>>

----------------------------------------------------------------------------
(* The dashboard: Streamlit reruns the whole script on every widget change *)

\* One run of the script with the widgets at (bt, sm, vi)
ScriptRun(bt, sm, vi) ==
  /\ base_target' = bt
  /\ shock_magnitude' = sm
  /\ volatility_idx' = vi
  /\ IF vi \notin DOMAIN vol_map
     THEN /\ status' = "KeyError"
          /\ UNCHANGED <<rng, frame, df, curr_val, peak_val, pre_shock_val,
                         metrics, history, forecast>>
     ELSE \E call \in {generate_scenario_data(Dec(bt), Dec(sm), vol_map[vi], rng)} :
             /\ frame' = call
             /\ rng' = call.rng
             /\ IF call.exc # "none"
                THEN /\ status' = call.exc
                     /\ UNCHANGED <<df, curr_val, peak_val, pre_shock_val,
                                    metrics, history, forecast>>
                ELSE /\ status' = "ok"
                     /\ df' = call.df
                     /\ curr_val' = iloc(df'.Inflation, -1)
                     /\ peak_val' = series_max(df'.Inflation)
                     /\ pre_shock_val' = iloc(df'.Inflation, 47)
                     /\ metrics' = metric_cards(curr_val', peak_val', pre_shock_val', vi)
                     /\ history' = history_rows(df')
                     /\ forecast' = forecast_rows(df')
  /\ UNCHANGED <<prev, args>>

\* the page before its first run
Blank == [Date |-> <<>>, Inflation |-> <<>>]

FirstRun ==
  /\ status = "loading"
  /\ ScriptRun(TargetDefault, ShockDefault, "Uncertain")

SetTarget ==
  /\ status = "ok"
  /\ \E bt \in TargetStops \ {base_target} :
        ScriptRun(bt, shock_magnitude, volatility_idx)

SetShock ==
  /\ status = "ok"
  /\ \E sm \in ShockStops \ {shock_magnitude} :
        ScriptRun(base_target, sm, volatility_idx)

SetVolatility ==
  /\ status = "ok"
  /\ \E vi \in VolatilityOptions \ {volatility_idx} :
        ScriptRun(base_target, shock_magnitude, vi)

Init ==
  /\ rng \in RngStates
  /\ frame = NoCall
  /\ prev = NoCall
  /\ args = <<>>
  /\ base_target = TargetDefault
  /\ shock_magnitude = ShockDefault
  /\ volatility_idx = "Uncertain"
  /\ status = "loading"
  /\ df = Blank
  /\ curr_val = Zero
  /\ peak_val = Zero
  /\ pre_shock_val = Zero
  /\ metrics = metric_cards(Zero, Zero, Zero, "Uncertain")
  /\ history = Blank
  /\ forecast = Blank

Next == FirstRun \/ SetTarget \/ SetShock \/ SetVolatility

Spec == Init /\ [][Next]_vars

----------------------------------------------------------------------------
(* The generator called directly, as a test calls it *)

\* the smallest positive float
Tiny == RoundFloat(1, -MinExp)

Targets == {Dec(100), Two, Dec(506)}
Shocks  == {Zero, Tiny, Dec(1), Dec(500)}
Vols    == {fneg(Half), Zero, Dec(40)}

\* a call with the arguments under test
Call ==
  /\ frame' = generate_scenario_data(args[1], args[2], args[3], rng)
  /\ rng' = frame'.rng
  /\ prev' = frame
  /\ UNCHANGED <<args, page>>

\* a call with other arguments, result dropped
OtherCall ==
  /\ \E t \in {Dec(350)}, k \in {Dec(150)}, v \in {fneg(Half), Dec(90)} :
        rng' = generate_scenario_data(t, k, v, rng).rng
  /\ UNCHANGED <<frame, prev, args, page>>

GenInit ==
  /\ rng \in RngStates
  /\ frame = NoCall
  /\ prev = NoCall
  /\ args \in Targets \X Shocks \X Vols
  /\ base_target = TargetDefault
  /\ shock_magnitude = ShockDefault
  /\ volatility_idx = "Uncertain"
  /\ status = "loading"
  /\ df = Blank
  /\ curr_val = Zero
  /\ peak_val = Zero
  /\ pre_shock_val = Zero
  /\ metrics = metric_cards(Zero, Zero, Zero, "Uncertain")
  /\ history = Blank
  /\ forecast = Blank

GenNext == Call \/ OtherCall

GenSpec == GenInit /\ [][GenNext]_vars

----------------------------------------------------------------------------
(* Properties *)

Returned(call) == call.exc = "none"
Made(call) == call.exc # "nocall"
Positive(x) == x[1] > 0
\* a float with a full significand: no precision lost to underflow
IsNormal(x) == Abs(x[1]) >= 2^(Precision - 1)

\* The 84 month-ends 2020-01-31 .. 2026-12-31, written out from the calendar
DaysOfMonth == <<31, 28, 31, 30, 31, 30, 31, 31, 30, 31, 30, 31>>
CanonicalMonthEnds ==
  [j \in 1..84 |->
     LET y == 2020 + (j - 1) \div 12
         m == ((j - 1) % 12) + 1
     IN y * 10000 + m * 100 +
        (IF m = 2 /\ y \in {2020, 2024} THEN 29 ELSE DaysOfMonth[m])]

\* C1: every call with volatility >= 0 returns, and what it returns is 84
\* (date, value) rows whose dates are the 84 month-ends 2020-01-31 ..
\* 2026-12-31 in increasing order, whatever the three arguments are.
C1_EightyFourMonthEnds ==
  (Made(frame) /\ ~flt(frame.args[3], Zero)) =>
     /\ Returned(frame)
     /\ Len(frame.df.Date) = 84
     /\ Len(frame.df.Inflation) = 84
     /\ frame.n = 84
     /\ frame.df.Date = CanonicalMonthEnds
     /\ frame.df.Date[1] = 20200131
     /\ frame.df.Date[84] = 20261231
     /\ \A j \in 1..83 : frame.df.Date[j] < frame.df.Date[j + 1]

\* C1 witness: a call with arguments other than the dashboard's defaults and
\* with noise has returned its 84 rows
C1_Witness ==
  /\ Returned(frame)
  /\ frame.args = <<Dec(506), Dec(500), Dec(40)>>
  /\ Len(frame.df.Date) = 84

\* C2: at every index i < 48 the shock term is 0 and the value is
\* trend[i] + seasonality[i] + noise[i]: the same value the call would have
\* produced with a shock factor of 0.
C2_NoShockBeforeOnset ==
  Returned(frame) =>
     LET unshocked == generate_scenario_data(frame.args[1], Zero, frame.args[3],
                                             frame.rng0).df.Inflation
     IN \A i \in 0..47 :
           /\ frame.shock[i + 1] = Zero
           /\ frame.df.Inflation[i + 1] =
                fadd(fadd(frame.trend[i + 1], frame.seasonality[i + 1]),
                     frame.noise[i + 1])
           /\ frame.df.Inflation[i + 1] = unshocked[i + 1]

\* C2 witness: a call with the largest shock factor has returned, and the
\* shock shows in the value at index 48 but not at index 47
C2_Witness ==
  /\ Returned(frame)
  /\ frame.args[2] = Dec(500)
  /\ frame.shock[49] # Zero
  /\ frame.df.Inflation[49] #
       fadd(fadd(frame.trend[49], frame.seasonality[49]), frame.noise[49])
  /\ frame.df.Inflation[48] =
       fadd(fadd(frame.trend[48], frame.seasonality[48]), frame.noise[48])

\* C3 as stated: shock[48] is the shock factor, and for every positive shock
\* factor the shock is positive at every index 48..83 and strictly decreasing.
C3_AsStated ==
  Returned(frame) =>
     /\ frame.shock[49] = frame.args[2]
     /\ Positive(frame.args[2]) =>
          /\ \A i \in 48..83 : Positive(frame.shock[i + 1])
          /\ \A i \in 48..82 : flt(frame.shock[i + 2], frame.shock[i + 1])

\* C3 amended: shock[48] is the shock factor; for a shock factor >= 0 the
\* shock is >= 0 and never increases over 48..83; it is positive at every
\* index and strictly decreasing when the shock factor is positive and the
\* last term, shock_factor * exp(-3.5), has not underflowed.
C3_DecayUnlessUnderflow ==
  Returned(frame) =>
     /\ frame.shock[49] = frame.args[2]
     /\ ~flt(frame.args[2], Zero) =>
          /\ \A i \in 48..83 : ~flt(frame.shock[i + 1], Zero)
          /\ \A i \in 48..82 : fle(frame.shock[i + 2], frame.shock[i + 1])
     /\ (Positive(frame.args[2]) /\ IsNormal(frame.shock[84])) =>
          /\ \A i \in 48..83 : Positive(frame.shock[i + 1])
          /\ \A i \in 48..82 : flt(frame.shock[i + 2], frame.shock[i + 1])

\* C3 witness: a call with the smallest non-zero shock the dashboard can
\* send, 0.01, has returned and its last shock term is a normal number
C3_Witness ==
  /\ Returned(frame)
  /\ frame.args[2] = Dec(1)
  /\ IsNormal(frame.shock[84])
  /\ flt(frame.shock[84], frame.shock[83])

\* x as an integer number of units of 2^-(Precision + 1), for |x| >= 1/2 or 0
Units(x) == x[1] * 2^(x[2] + Precision + 1)

\* C4: trend[0] is 2.0 and trend[83] is the target, both exactly; in between
\* the trend is 2.0 + (target - 2.0) * i / 83 up to rounding (within
\* 2^(6 - Precision), a few units in the last place of a value below 16),
\* rising for a target above 2.0 and falling for one below.
C4_TrendInterpolates ==
  Made(frame) =>
     /\ frame.trend[1] = Two
     /\ frame.trend[84] = frame.args[1]
     /\ Len(frame.trend) = 84
     /\ \A i \in 0..83 :
          Abs(83 * Units(frame.trend[i + 1])
              - (83 * Units(Two) + (Units(frame.args[1]) - Units(Two)) * i))
            <= 83 * 2^7
     /\ \A i \in 0..82 :
          IF flt(frame.args[1], Two)
          THEN fle(frame.trend[i + 2], frame.trend[i + 1])
          ELSE fle(frame.trend[i + 1], frame.trend[i + 2])

\* C4 witness: a call with a target below 2.0 has been made and its trend
\* falls from 2.0 to the target
C4_Witness ==
  /\ Made(frame)
  /\ frame.args[1] = Dec(100)
  /\ frame.trend[1] = Two
  /\ flt(frame.trend[43], frame.trend[42])
  /\ frame.trend[84] = Dec(100)

\* C5: with volatility 0 and shock factor 0 every value is
\* trend[i] + seasonality[i], and the series is the same from every state
\* of the random source: the target alone determines it.
C5_TrendPlusSeasonality ==
  (Returned(frame) /\ frame.args[2] = Zero /\ frame.args[3] = Zero) =>
     /\ \A i \in 0..83 :
          /\ frame.noise[i + 1] = Zero
          /\ frame.shock[i + 1] = Zero
          /\ frame.df.Inflation[i + 1] =
               fadd(frame.trend[i + 1], frame.seasonality[i + 1])
     /\ \A r \in RngStates :
          generate_scenario_data(frame.args[1], Zero, Zero, r).df = frame.df

\* C5 witness: a call with volatility 0 and shock factor 0 has returned
C5_Witness ==
  /\ Returned(frame)
  /\ frame.args[2] = Zero
  /\ frame.args[3] = Zero
  /\ frame.args[1] = Dec(506)
  /\ frame.rng # frame.rng0

\* C6: two calls with the same target and shock factor and volatility 0
\* return the same series, whatever the random source did in between.
C6_SameSeriesWithoutNoise ==
  (Returned(prev) /\ Returned(frame) /\ frame.args[3] = Zero) =>
     /\ prev.args = frame.args
     /\ frame.df = prev.df

\* C6 witness: two calls with volatility 0 have returned; the first advanced
\* the random source and the second started from another state of it than
\* the first did
C6_Witness ==
  /\ Returned(prev)
  /\ Returned(frame)
  /\ frame.args[3] = Zero
  /\ Positive(frame.args[2])
  /\ prev.rng # prev.rng0
  /\ frame.rng0 # prev.rng0

\* C7: a call with volatility < 0 raises ValueError whatever the target and
\* the shock factor are: no series is returned and no draw is made.
C7_NegativeVolatilityRaises ==
  (Made(frame) /\ flt(frame.args[3], Zero)) =>
     /\ frame.exc = "ValueError"
     /\ frame.df = [Date |-> <<>>, Inflation |-> <<>>]
     /\ frame.rng = frame.rng0

\* C7 witness: a call with volatility -0.5 has raised
C7_Witness ==
  /\ frame.exc = "ValueError"
  /\ frame.args[3] = fneg(Half)
  /\ frame.args[1] = Dec(100)

\* C8: the metrics come from the series of the latest run: current is
\* value[83], pre-shock is value[47], the value of 2023-12-31, the last index
\* before the onset, peak is the largest value, so peak >= current and
\* peak >= pre-shock, and the delta shown is current - pre-shock.
C8_MetricsFromSeries ==
  status = "ok" =>
     /\ df = frame.df
     /\ frame.args = <<Dec(base_target), Dec(shock_magnitude), vol_map[volatility_idx]>>
     /\ curr_val = df.Inflation[84]
     /\ pre_shock_val = df.Inflation[48]
     /\ df.Date[48] = 20231231
     /\ shock_start = 48
     /\ frame.shock[48] = Zero
     /\ shock_magnitude > 0 => frame.shock[49] # Zero
     /\ \A j \in 1..84 : fle(df.Inflation[j], peak_val)
     /\ \E j \in 1..84 : df.Inflation[j] = peak_val
     /\ fle(curr_val, peak_val)
     /\ fle(pre_shock_val, peak_val)
     /\ metrics.value = format_2f(df.Inflation[84])
     /\ metrics.peak = format_2f(peak_val)
     /\ metrics.delta = format_2f(fsub(df.Inflation[84], df.Inflation[48]))

\* C8 witness: a run after the shock slider was moved to its maximum, with
\* the peak above both the current and the pre-shock value
C8_Witness ==
  /\ status = "ok"
  /\ shock_magnitude = ShockMax
  /\ flt(curr_val, peak_val)
  /\ flt(pre_shock_val, peak_val)
  /\ metrics.delta # 0

\* C9: history is the rows of indices 0..47, forecast the rows of indices
\* 48..83, in the order of the series; together they are the series, and the
\* indices of history are those whose shock term is zero.
C9_SplitAtOnset ==
  status = "ok" =>
     /\ Len(history.Date) = 48
     /\ Len(forecast.Date) = 36
     /\ Len(history.Date) = shock_start
     /\ history.Date = SubSeq(df.Date, 1, 48)
     /\ history.Inflation = SubSeq(df.Inflation, 1, 48)
     /\ forecast.Date = SubSeq(df.Date, 49, 84)
     /\ forecast.Inflation = SubSeq(df.Inflation, 49, 84)
     /\ history.Date \o forecast.Date = df.Date
     /\ history.Inflation \o forecast.Inflation = df.Inflation
     /\ \A j \in 1..48 : history.Date[j] < 20240101 /\ frame.shock[j] = Zero
     /\ \A j \in 1..36 : forecast.Date[j] >= 20240101
     /\ shock_magnitude > 0 => \A j \in 49..84 : frame.shock[j] # Zero

\* C9 witness: a run with a shock has split its series into 48 and 36 rows
C9_Witness ==
  /\ status = "ok"
  /\ shock_magnitude = ShockMax
  /\ Len(history.Date) = 48
  /\ Len(forecast.Date) = 36
  /\ history.Date[48] = 20231231
  /\ forecast.Date[1] = 20240131

\* C10: every call the dashboard makes has its target in [1.0, 10.0], its
\* shock factor in [0.0, 5.0] and its volatility in {0.1, 0.4, 0.9}; no run
\* ends in the ValueError of a negative volatility or in a KeyError of
\* vol_map, and the series shown is the one of the latest call, made with the
\* current values of the sliders.
C10_DashboardCallsInRange ==
  /\ status \in {"loading", "ok"}
  /\ volatility_idx \in DOMAIN vol_map
  /\ Made(frame) =>
       /\ status = "ok"
       /\ Returned(frame)
       /\ fle(Dec(100), frame.args[1]) /\ fle(frame.args[1], Dec(1000))
       /\ fle(Zero, frame.args[2]) /\ fle(frame.args[2], Dec(500))
       /\ frame.args[3] \in {Dec(10), Dec(40), Dec(90)}
       /\ frame.args = <<Dec(base_target), Dec(shock_magnitude), vol_map[volatility_idx]>>
       /\ df = frame.df

\* C10 witness: after several changes the sliders stand at the ends of their
\* ranges and the series of that call is shown
C10_Witness ==
  /\ status = "ok"
  /\ base_target = TargetMax
  /\ shock_magnitude = ShockMin
  /\ volatility_idx = "Chaotic"
  /\ frame.args = <<Dec(1000), Zero, Dec(90)>>
  /\ df = frame.df

====
